---- MODULE Spec2Model ----
(***************************************************************************)
(* json_ast.py: DictWalker, an ast.NodeVisitor that turns a Python AST      *)
(* into nested dicts and lists, and the script that parses a file, dumps   *)
(* the dicts as JSON on sys.stdout and prints the kinds it had no          *)
(* converter for.                                                          *)
(*                                                                         *)
(* Python values are tagged records (field t is the Python type), so that  *)
(* isinstance / "is None" tests of the code are tests of the tag.          *)
(***************************************************************************)
EXTENDS Integers, Sequences, FiniteSets

\* ------------------------------------------------------------------ bounds
\* Longest sequence-valued field (bodies, argument lists, ...) of an input tree.
MaxLen == 2
\* Number of address-space layouts a process can be started with.
NumAslr == 2
\* Separate runs of the script over the same file.
NumRuns == 2

\* ----------------------------------------------------------- Python values
PyNone == [t |-> "None"]
PyStr(s) == [t |-> "str", s |-> s]
PyInt(n) == [t |-> "int", n |-> n]
PyBytes(s) == [t |-> "bytes", s |-> s]
PyList(items) == [t |-> "list", items |-> items]
\* A dict keeps its items in insertion order; an item is [k |-> key, v |-> value].
PyDict(items) == [t |-> "dict", items |-> items]
Item(k, v) == [k |-> k, v |-> v]

Keys(d) == {d.items[i].k : i \in 1..Len(d.items)}
HasKey(d, k) == k \in Keys(d)
Get(d, k) == d.items[CHOOSE i \in 1..Len(d.items) : d.items[i].k = k].v

\* a | b on dicts: the items of a, each value replaced by b's when b has the
\* key, followed by the items of b whose key a does not have.
DictUnion(a, b) ==
    PyDict([i \in 1..Len(a.items) |->
               IF HasKey(b, a.items[i].k)
               THEN Item(a.items[i].k, Get(b, a.items[i].k))
               ELSE a.items[i]]
           \o SelectSeq(b.items, LAMBDA it : ~HasKey(a, it.k)))

\* ------------------------------------------------------------- ast nodes
\* A node has its class name, its _fields in grammar order and its
\* _attributes (lineno, col_offset, end_lineno, end_col_offset), which
\* the grammar gives to statements, expressions, arg, keyword and alias only.
Node(cls, fields, attributes) ==
    [t |-> "AST", cls |-> cls, fields |-> fields, attributes |-> attributes]
NoPos == <<>>
At(l, c) == <<Item("lineno", PyInt(l)), Item("col_offset", PyInt(c)),
              Item("end_lineno", PyInt(l)), Item("end_col_offset", PyInt(c + 1))>>

AttrItems(node) == node.fields \o node.attributes
hasattr(node, name) ==
    LET items == AttrItems(node) IN \E i \in 1..Len(items) : items[i].k = name
getattr(node, name) ==
    LET items == AttrItems(node)
    IN  items[CHOOSE i \in 1..Len(items) : items[i].k = name].v


\* The classes of the grammar the input trees use, fields in _fields order.
\* An operator or an expression context has neither fields nor a position.
ast_Leaf(cls) == Node(cls, <<>>, NoPos)
ast_Module(body) ==
    Node("Module", <<Item("body", PyList(body)), Item("type_ignores", PyList(<<>>))>>, NoPos)
ast_Expr(value, p) == Node("Expr", <<Item("value", value)>>, p)
ast_Call(func, args, keywords, p) ==
    Node("Call", <<Item("func", func), Item("args", PyList(args)),
                   Item("keywords", PyList(keywords))>>, p)
ast_Name(id, ctx, p) == Node("Name", <<Item("id", PyStr(id)), Item("ctx", ast_Leaf(ctx))>>, p)
ast_Constant(value, p) == Node("Constant", <<Item("value", value), Item("kind", PyNone)>>, p)
ast_keyword(arg, value, p) == Node("keyword", <<Item("arg", arg), Item("value", value)>>, p)
ast_Import(names, p) == Node("Import", <<Item("names", PyList(names))>>, p)
ast_alias(name, asname, p) ==
    Node("alias", <<Item("name", PyStr(name)), Item("asname", asname)>>, p)
ast_ImportFrom(module, names, level, p) ==
    Node("ImportFrom", <<Item("module", module), Item("names", PyList(names)),
                         Item("level", PyInt(level))>>, p)
ast_ClassDef(name, bases, keywords, body, decorator_list, p) ==
    Node("ClassDef", <<Item("name", PyStr(name)), Item("bases", PyList(bases)),
                       Item("keywords", PyList(keywords)), Item("body", PyList(body)),
                       Item("decorator_list", PyList(decorator_list))>>, p)
ast_Attribute(value, attr, ctx, p) ==
    Node("Attribute", <<Item("value", value), Item("attr", PyStr(attr)),
                        Item("ctx", ast_Leaf(ctx))>>, p)
ast_arguments(posonlyargs, args, vararg, kwonlyargs, kw_defaults, kwarg, defaults) ==
    Node("arguments", <<Item("posonlyargs", PyList(posonlyargs)), Item("args", PyList(args)),
                        Item("vararg", vararg), Item("kwonlyargs", PyList(kwonlyargs)),
                        Item("kw_defaults", PyList(kw_defaults)), Item("kwarg", kwarg),
                        Item("defaults", PyList(defaults))>>, NoPos)
ast_comprehension(target, iter, ifs) ==
    Node("comprehension", <<Item("target", target), Item("iter", iter),
                            Item("ifs", PyList(ifs)), Item("is_async", PyInt(0))>>, NoPos)
ast_withitem(context_expr, optional_vars) ==
    Node("withitem", <<Item("context_expr", context_expr),
                       Item("optional_vars", optional_vars)>>, NoPos)
ast_Subscript(value, slice, ctx, p) ==
    Node("Subscript", <<Item("value", value), Item("slice", slice),
                        Item("ctx", ast_Leaf(ctx))>>, p)
ast_BinOp(left, op, right, p) ==
    Node("BinOp", <<Item("left", left), Item("op", ast_Leaf(op)), Item("right", right)>>, p)
ast_With(items, body, p) ==
    Node("With", <<Item("items", PyList(items)), Item("body", PyList(body)),
                   Item("type_comment", PyNone)>>, p)
ast_Assign(targets, value, p) ==
    Node("Assign", <<Item("targets", PyList(targets)), Item("value", value),
                     Item("type_comment", PyNone)>>, p)
ast_Dict(keys, values, p) ==
    Node("Dict", <<Item("keys", PyList(keys)), Item("values", PyList(values))>>, p)
ast_arg(arg, annotation, p) ==
    Node("arg", <<Item("arg", PyStr(arg)), Item("annotation", annotation),
                  Item("type_comment", PyNone)>>, p)
ast_Return(value, p) == Node("Return", <<Item("value", value)>>, p)
ast_FunctionDef(name, args, body, decorator_list, returns, p) ==
    Node("FunctionDef", <<Item("name", PyStr(name)), Item("args", args),
                          Item("body", PyList(body)),
                          Item("decorator_list", PyList(decorator_list)),
                          Item("returns", returns), Item("type_comment", PyNone)>>, p)
ast_ListComp(elt, generators, p) ==
    Node("ListComp", <<Item("elt", elt), Item("generators", PyList(generators))>>, p)
ast_UnaryOp(op, operand, p) ==
    Node("UnaryOp", <<Item("op", ast_Leaf(op)), Item("operand", operand)>>, p)
ast_Compare(left, ops, comparators, p) ==
    Node("Compare", <<Item("left", left), Item("ops", PyList(ops)),
                      Item("comparators", PyList(comparators))>>, p)
ast_IfExp(test, body, orelse, p) ==
    Node("IfExp", <<Item("test", test), Item("body", body), Item("orelse", orelse)>>, p)
ast_JoinedStr(values, p) == Node("JoinedStr", <<Item("values", PyList(values))>>, p)
ast_Tuple(elts, ctx, p) ==
    Node("Tuple", <<Item("elts", PyList(elts)), Item("ctx", ast_Leaf(ctx))>>, p)
ast_FormattedValue(value, conversion, format_spec, p) ==
    Node("FormattedValue", <<Item("value", value), Item("conversion", PyInt(conversion)),
                             Item("format_spec", format_spec)>>, p)
ast_For(target, iter, body, orelse, p) ==
    Node("For", <<Item("target", target), Item("iter", iter), Item("body", PyList(body)),
                  Item("orelse", PyList(orelse)), Item("type_comment", PyNone)>>, p)
ast_If(test, body, orelse, p) ==
    Node("If", <<Item("test", test), Item("body", PyList(body)),
                 Item("orelse", PyList(orelse))>>, p)
\* Classes DictWalker has no visit_ method for.
ast_List(elts, ctx, p) ==
    Node("List", <<Item("elts", PyList(elts)), Item("ctx", ast_Leaf(ctx))>>, p)
ast_Pass(p) == Node("Pass", <<>>, p)
ast_BoolOp(op, values, p) ==
    Node("BoolOp", <<Item("op", ast_Leaf(op)), Item("values", PyList(values))>>, p)
ast_Set(elts, p) == Node("Set", <<Item("elts", PyList(elts))>>, p)

\* ------------------------------------------------------------ DictWalker
\* A visit_ method is a dict display {"type": ..., key: expr, ...}, merged or
\* not with self.generic_visit(node, True).  Each item's expression is one of
\*   raw      node.attr
\*   visit    self.visit(node.attr)
\*   list     [self.visit(x) for x in node.attr]      (or list(map(visit, ...)))
\*   opt      self.visit(node.attr) if node.attr is not None else None
\*   optlist  [self.visit(x) if x is not None else None for x in node.attr]
Raw(key, attr) == [key |-> key, attr |-> attr, how |-> "raw"]
Visit(key, attr) == [key |-> key, attr |-> attr, how |-> "visit"]
VisitList(key, attr) == [key |-> key, attr |-> attr, how |-> "list"]
VisitOpt(key, attr) == [key |-> key, attr |-> attr, how |-> "opt"]
VisitOptList(key, attr) == [key |-> key, attr |-> attr, how |-> "optlist"]
Method(type, items, merge) == [type |-> type, items |-> items, merge |-> merge]

visit_Module == Method("Module", <<VisitList("body", "body")>>, FALSE)
visit_Expr == Method("Expr", <<Visit("value", "value")>>, TRUE)
visit_Call ==
    Method("Call", <<Visit("func", "func"), VisitList("args", "args"),
                     VisitList("keywords", "keywords")>>, TRUE)
\* visit_Name without its `| self.generic_visit(node, True)`
visit_Name_unmerged == Method("Name", <<Raw("id", "id"), Visit("ctx", "ctx")>>, FALSE)
visit_Name == Method("Name", <<Raw("id", "id"), Visit("ctx", "ctx")>>, TRUE)
visit_Load == Method("Load", <<>>, FALSE)
visit_Constant == Method("Constant", <<Raw("value", "value"), Raw("kind", "kind")>>, TRUE)
visit_keyword == Method("keyword", <<Raw("arg", "arg"), Visit("value", "value")>>, FALSE)
visit_Import == Method("Import", <<VisitList("names", "names")>>, TRUE)
visit_alias == Method("alias", <<Raw("name", "name"), Raw("asname", "asname")>>, TRUE)
visit_ImportFrom ==
    Method("ImportFrom", <<Raw("module", "module"), VisitList("names", "names"),
                           Raw("level", "level")>>, TRUE)
visit_ClassDef ==
    Method("ClassDef", <<Raw("name", "name"), VisitList("bases", "bases"),
                         VisitList("keywords", "keywords"), VisitList("body", "body"),
                         VisitList("decorator_list", "decorator_list")>>, TRUE)
visit_Attribute ==
    Method("Attribute", <<Visit("value", "value"), Raw("attr", "attr"),
                          Visit("ctx", "ctx")>>, TRUE)
visit_Store == Method("Store", <<>>, FALSE)
visit_BitOr == Method("BitOr", <<>>, FALSE)
visit_arguments ==
    Method("arguments", <<VisitList("posonlyargs", "posonlyargs"), VisitList("args", "args"),
                          VisitOpt("vararg", "vararg"),
                          VisitList("kwonlyargs", "kwonlyargs"),
                          VisitOptList("kw_defaults", "kw_defaults"),
                          VisitOpt("kwarg", "kwarg"),
                          VisitList("defaults", "defaults")>>, FALSE)
visit_Not == Method("Not", <<>>, FALSE)
visit_comprehension ==
    Method("comprehension", <<Visit("target", "target"), Visit("iter", "iter"),
                              VisitList("ifs", "ifs"), Raw("is_async", "is_async")>>, FALSE)
visit_IsNot == Method("IsNot", <<>>, FALSE)
visit_Eq == Method("Eq", <<>>, FALSE)
visit_withitem ==
    Method("withitem", <<Visit("context_expr", "context_expr"),
                         VisitOpt("optional_vars", "optional_vars")>>, FALSE)
visit_Add == Method("Add", <<>>, FALSE)
visit_Subscript ==
    Method("Subscript", <<Visit("value", "value"), Visit("slice", "slice"),
                          Visit("ctx", "ctx")>>, TRUE)
visit_BinOp ==
    Method("BinOp", <<Visit("left", "left"), Visit("op", "op"), Visit("right", "right")>>, TRUE)
visit_With == Method("With", <<VisitList("items", "items"), VisitList("body", "body")>>, TRUE)
visit_Assign ==
    Method("Assign", <<VisitList("targets", "targets"), Visit("value", "value")>>, TRUE)
visit_Dict == Method("Dict", <<VisitOptList("keys", "keys"), VisitList("values", "values")>>, TRUE)
visit_arg == Method("arg", <<Raw("arg", "arg"), VisitOpt("annotation", "annotation")>>, TRUE)
visit_Return == Method("Return", <<VisitOpt("value", "value")>>, TRUE)
visit_FunctionDef ==
    Method("FunctionDef", <<Raw("name", "name"), Visit("args", "args"),
                            VisitList("body", "body"),
                            VisitList("decorator_list", "decorator_list"),
                            VisitOpt("return", "returns")>>, TRUE)
visit_ListComp ==
    Method("ListComp", <<Visit("elt", "elt"), VisitList("generators", "generators")>>, TRUE)
visit_UnaryOp == Method("UnaryOp", <<Visit("op", "op"), Visit("operand", "operand")>>, TRUE)
visit_Compare ==
    Method("Compare", <<VisitList("ops", "ops"), VisitList("comparators", "comparators")>>, TRUE)
visit_IfExp ==
    Method("IfExp", <<Visit("test", "test"), Visit("body", "body"),
                      Visit("orelse", "orelse")>>, TRUE)
visit_JoinedStr == Method("JoinedStr", <<VisitList("values", "values")>>, TRUE)
visit_Tuple == Method("Tuple", <<VisitList("elts", "elts"), Visit("ctx", "ctx")>>, TRUE)
visit_FormattedValue ==
    Method("FormattedValue", <<Visit("value", "value"), Raw("conversion", "conversion"),
                               VisitOpt("format_spec", "format_spec")>>, TRUE)
visit_For ==
    Method("For", <<Visit("target", "target"), Visit("iter", "iter"),
                    VisitList("body", "body"), VisitList("orelse", "orelse")>>, TRUE)
visit_If ==
    Method("If", <<Visit("test", "test"), VisitList("body", "body"),
                   VisitList("orelse", "orelse")>>, TRUE)

\* The visit_ methods of the class, by the class name they are looked up with.
DictWalker ==
    [Module |-> visit_Module, Expr |-> visit_Expr, Call |-> visit_Call, Name |-> visit_Name,
     Load |-> visit_Load, Constant |-> visit_Constant, keyword |-> visit_keyword,
     Import |-> visit_Import, alias |-> visit_alias, ImportFrom |-> visit_ImportFrom,
     ClassDef |-> visit_ClassDef, Attribute |-> visit_Attribute, Store |-> visit_Store,
     BitOr |-> visit_BitOr, arguments |-> visit_arguments, Not |-> visit_Not,
     comprehension |-> visit_comprehension, IsNot |-> visit_IsNot, Eq |-> visit_Eq,
     withitem |-> visit_withitem, Add |-> visit_Add, Subscript |-> visit_Subscript,
     BinOp |-> visit_BinOp, With |-> visit_With, Assign |-> visit_Assign, Dict |-> visit_Dict,
     arg |-> visit_arg, Return |-> visit_Return, FunctionDef |-> visit_FunctionDef,
     ListComp |-> visit_ListComp, UnaryOp |-> visit_UnaryOp, Compare |-> visit_Compare,
     IfExp |-> visit_IfExp, JoinedStr |-> visit_JoinedStr, Tuple |-> visit_Tuple,
     FormattedValue |-> visit_FormattedValue, For |-> visit_For, If |-> visit_If]


\* -------------------------------------------------------- generic_visit
\* str(node) is object.__repr__: "<ast.X object at 0x...>".  The address is
\* fixed by the address-space layout the process was started with (the
\* allocations of a run over one file are deterministic), so it is
\* abstracted to that layout and the object it is the address of.
ObjectRepr(node, base) ==
    [cls |-> node.cls, at |-> [layout |-> base, object |-> node.attributes]]
FString(prefix, node, base) == [t |-> "str", s |-> prefix, obj |-> ObjectRepr(node, base)]

\* `if not just_get_info:` guards the bookkeeping of the fallback.
Fallback(just_get_info) == ~just_get_info

\* info set whatever just_get_info is
Info_always(node, just_get_info, base) ==
    PyDict(<<Item("type", FString("Unimplemented: ", node, base))>>)

\* info after lines 16-21.
Info(node, just_get_info, base) ==
    IF Fallback(just_get_info)
    THEN PyDict(<<Item("type", FString("Unimplemented: ", node, base))>>)
    ELSE PyDict(<<>>)

TypeComment(node) ==
    IF hasattr(node, "type_comment") THEN getattr(node, "type_comment") ELSE PyNone

PositionKeys == <<"lineno", "col_offset", "end_lineno", "end_col_offset">>

\* Reading node.lineno (...) of a node without it raises AttributeError.
RaisesAttributeError(node) == \E i \in 1..Len(PositionKeys) : ~hasattr(node, PositionKeys[i])

\* The dict display of lines 28-34, before `| info`.
PositionDict(node) ==
    PyDict([i \in 1..Len(PositionKeys) |-> Item(PositionKeys[i], getattr(node, PositionKeys[i]))]
           \o <<Item("type_comment", TypeComment(node))>>)

generic_visit_return(node, just_get_info, base) ==
    DictUnion(PositionDict(node), Info(node, just_get_info, base))

RECURSIVE Concat(_)
Concat(ss) == IF Len(ss) = 0 THEN <<>> ELSE Head(ss) \o Concat(Tail(ss))

IsAST(v) == v.t = "AST"

\* ast.NodeVisitor.generic_visit: the AST values of the fields, in order,
\* lists flattened; each is passed to self.visit and the result dropped.
ChildNodes(node) ==
    Concat([i \in 1..Len(node.fields) |->
              LET v == node.fields[i].v
              IN  CASE v.t = "list" -> SelectSeq(v.items, IsAST)
                    [] v.t = "AST" -> <<v>>
                    [] OTHER -> <<>>])

\* ------------------------------------------------------ visit_ methods
IsNotNone(v) == v # PyNone

\* The nodes one item of the display passes to self.visit, in order.
ItemVisits(node, it) ==
    LET v == getattr(node, it.attr)
    IN  CASE it.how = "raw" -> <<>>
          [] it.how = "visit" -> <<v>>
          [] it.how = "list" -> v.items
          [] it.how = "opt" -> IF IsNotNone(v) THEN <<v>> ELSE <<>>
          [] it.how = "optlist" -> SelectSeq(v.items, IsNotNone)

\* All the self.visit calls of a method, in evaluation order.
MethodVisits(node, m) == Concat([i \in 1..Len(m.items) |-> ItemVisits(node, m.items[i])])

\* the results in the opposite order
Comprehension_reversed(results) ==
    PyList([i \in 1..Len(results) |-> results[Len(results) + 1 - i]])

\* [self.visit(x) for x in xs]: the results in the order of the calls.
Comprehension(results) == PyList(results)

\* [self.visit(x) if x is not None else None for x in xs]
RECURSIVE OptComprehension(_, _)
OptComprehension(xs, results) ==
    IF Len(xs) = 0 THEN <<>>
    ELSE IF IsNotNone(Head(xs))
         THEN <<Head(results)>> \o OptComprehension(Tail(xs), Tail(results))
         ELSE <<PyNone>> \o OptComprehension(Tail(xs), results)

\* self.visit(x) if x is not None else None
Conditional(v, results) == IF IsNotNone(v) THEN results[1] ELSE PyNone

ItemValue(node, it, results) ==
    LET v == getattr(node, it.attr)
    IN  CASE it.how = "raw" -> v
          [] it.how = "visit" -> results[1]
          [] it.how = "list" -> Comprehension(results)
          [] it.how = "opt" -> Conditional(v, results)
          [] it.how = "optlist" -> PyList(OptComprehension(v.items, results))

\* a display that leaves out the items whose value is None
RECURSIVE DisplayItems_skip_none(_, _, _)
DisplayItems_skip_none(node, items, results) ==
    IF Len(items) = 0 THEN <<>>
    ELSE LET n == Len(ItemVisits(node, Head(items)))
             v == ItemValue(node, Head(items), SubSeq(results, 1, n))
         IN  (IF IsNotNone(v) THEN <<Item(Head(items).key, v)>> ELSE <<>>)
             \o DisplayItems_skip_none(node, Tail(items), SubSeq(results, n + 1, Len(results)))

\* The items of the display after "type", given the results of the visits.
RECURSIVE DisplayItems(_, _, _)
DisplayItems(node, items, results) ==
    IF Len(items) = 0 THEN <<>>
    ELSE LET n == Len(ItemVisits(node, Head(items)))
         IN  <<Item(Head(items).key, ItemValue(node, Head(items), SubSeq(results, 1, n)))>>
             \o DisplayItems(node, Tail(items), SubSeq(results, n + 1, Len(results)))

Display(node, m, results) ==
    PyDict(<<Item("type", PyStr(m.type))>> \o DisplayItems(node, m.items, results))

\* The value a visit_ method returns: its display, `| self.generic_visit(node, True)`
\* when the method merges.
method_return(node, m, results, info) ==
    IF m.merge THEN DictUnion(Display(node, m, results), info) ELSE Display(node, m, results)

\* ast.NodeVisitor.visit: getattr(self, "visit_" + class name, self.generic_visit).
HasVisitor(node) == node.cls \in DOMAIN DictWalker

\* ------------------------------------------------------------ json.dump
\* The chunks json.dump writes, one fp.write each; a value the encoder cannot
\* serialise (bytes, an AST object) raises TypeError when it is reached.
Chunk(s) == [t |-> "str", s |-> s]
Quoted(v) == [t |-> "str", quoted |-> v]
Digits(n) == [t |-> "str", digits |-> n]
TypeError == [t |-> "TypeError"]

RECURSIVE iterencode(_)
RECURSIVE iterencode_list(_, _)
RECURSIVE iterencode_dict(_, _)
iterencode(v) ==
    CASE v.t = "None" -> <<Chunk("null")>>
      [] v.t = "str" -> <<Quoted(v)>>
      [] v.t = "int" -> <<Digits(v.n)>>
      [] v.t = "list" -> <<Chunk("[")>> \o iterencode_list(v.items, TRUE) \o <<Chunk("]")>>
      [] v.t = "dict" -> <<Chunk("{")>> \o iterencode_dict(v.items, TRUE) \o <<Chunk("}")>>
      [] OTHER -> <<TypeError>>
iterencode_list(items, first) ==
    IF Len(items) = 0 THEN <<>>
    ELSE (IF first THEN <<>> ELSE <<Chunk(", ")>>)
         \o iterencode(Head(items)) \o iterencode_list(Tail(items), FALSE)
iterencode_dict(items, first) ==
    IF Len(items) = 0 THEN <<>>
    ELSE (IF first THEN <<>> ELSE <<Chunk(", ")>>)
         \o <<Quoted(PyStr(Head(items).k)), Chunk(": ")>>
         \o iterencode(Head(items).v) \o iterencode_dict(Tail(items), FALSE)

\* json.dump(v) runs to completion
RECURSIVE Serializable(_)
Serializable(v) ==
    CASE v.t \in {"None", "str", "int"} -> TRUE
      [] v.t = "list" -> \A i \in 1..Len(v.items) : Serializable(v.items[i])
      [] v.t = "dict" -> \A i \in 1..Len(v.items) : Serializable(v.items[i].v)
      [] OTHER -> FALSE

\* The chunks written before the first TypeError, if any.
RECURSIVE Written(_)
Written(chunks) ==
    IF Len(chunks) = 0 \/ Head(chunks) = TypeError THEN <<>>
    ELSE <<Head(chunks)>> \o Written(Tail(chunks))


\* --------------------------------------------------------------- inputs
\* The trees ast.parse returns for the files the runs are given.  Sequences
\* have every length up to MaxLen, their elements told apart by position;
\* optional fields are both present and absent.
Lens == 0..MaxLen
Lens1 == 1..MaxLen

X(i) == ast_Name("x", "Load", At(1, i))
Target(i) == ast_Name("y", "Store", At(1, i))
Num(i) == ast_Constant(PyInt(i), At(1, i))
ExprSeq(n) == [i \in 1..n |-> X(i)]
StmtSeq(n) == [i \in 1..n |-> ast_Expr(ast_Name("x", "Load", At(i + 1, 0)), At(i + 1, 0))]
\* the first keyword is a splat, **x
KeywordSeq(n) == [i \in 1..n |-> ast_keyword(IF i = 1 THEN PyNone ELSE PyStr("k"), X(i), At(1, i))]
ArgSeq(n, annotated) ==
    [i \in 1..n |-> ast_arg("a", IF annotated THEN X(i) ELSE PyNone, At(1, i))]
OptArg(present) == IF present THEN ast_arg("r", PyNone, At(1, 9)) ELSE PyNone
OptExpr(present) == IF present THEN X(9) ELSE PyNone
\* an absent entry where the argument (or the dict item) has no default (no key)
HoleSeq(n) == [i \in 1..n |-> IF i = 1 THEN PyNone ELSE X(i)]
AliasSeq(n) ==
    [i \in 1..n |-> ast_alias("m", IF i = 1 THEN PyNone ELSE PyStr("n"), At(1, i))]
CmpOpSeq(n) == [i \in 1..n |-> ast_Leaf(IF i = 1 THEN "Eq" ELSE "IsNot")]
WithItemSeq(n) == [i \in 1..n |-> ast_withitem(X(i), IF i = 1 THEN PyNone ELSE Target(i))]
GeneratorSeq(n, m) == [i \in 1..n |-> ast_comprehension(Target(i), X(i), ExprSeq(m))]
FormatSpec(present) == IF present THEN ast_JoinedStr(<<Num(8)>>, At(1, 8)) ELSE PyNone
FStringParts(n) ==
    [i \in 1..n |-> IF i = 1 THEN ast_FormattedValue(X(i), -1, FormatSpec(FALSE), At(1, i))
                    ELSE IF i = 2 THEN ast_FormattedValue(X(i), 114, FormatSpec(TRUE), At(1, i))
                    ELSE ast_Constant(PyStr("s"), At(1, i))]

\* Lists, sets, boolean operations, pass and the operators -, unary -, <,
\* `and` have no visit_ method.
EmptyList == ast_List(<<>>, "Load", At(1, 0))

Exprs ==
    {X(0), Num(1), ast_Constant(PyStr("s"), At(1, 0)), ast_Constant(PyNone, At(1, 0)),
     ast_Constant(PyBytes("b"), At(1, 0)),
     ast_Attribute(X(1), "a", "Load", At(1, 0)),
     ast_Subscript(X(1), Num(2), "Load", At(1, 0)),
     ast_IfExp(X(1), X(2), X(3), At(1, 0)),
     ast_Set(<<EmptyList, Num(1)>>, At(1, 0)),
     ast_List(<<EmptyList, X(2)>>, "Load", At(1, 0)),
     ast_List(<<ast_Set(<<Num(1)>>, At(1, 1)), ast_BinOp(X(2), "Sub", X(3), At(1, 2))>>,
              "Load", At(1, 0)),
     ast_BoolOp("And", <<X(1), X(2)>>, At(1, 0)),
     ast_Compare(EmptyList, CmpOpSeq(1), ExprSeq(1), At(1, 0)),
     ast_Compare(X(0), <<ast_Leaf("Lt")>>, ExprSeq(1), At(1, 0)),
     ast_Call(EmptyList, <<ast_Set(<<Num(1)>>, At(1, 1))>>, KeywordSeq(1), At(1, 0))}
    \cup {ast_Call(X(0), ExprSeq(n), KeywordSeq(m), At(1, 0)) : n \in Lens, m \in Lens}
    \cup {ast_BinOp(X(1), op, Num(2), At(1, 0)) : op \in {"Add", "BitOr", "Sub"}}
    \cup {ast_UnaryOp(op, X(1), At(1, 0)) : op \in {"Not", "USub"}}
    \cup {ast_Compare(X(0), CmpOpSeq(n), ExprSeq(n), At(1, 0)) : n \in Lens1}
    \cup {ast_JoinedStr(FStringParts(n), At(1, 0)) : n \in Lens}
    \cup {ast_Tuple(ExprSeq(n), "Load", At(1, 0)) : n \in Lens}
    \cup {ast_List(ExprSeq(n), "Load", At(1, 0)) : n \in Lens}
    \cup {ast_Dict(ExprSeq(n), ExprSeq(n), At(1, 0)) : n \in Lens}
    \cup {ast_Dict(HoleSeq(n), ExprSeq(n), At(1, 0)) : n \in Lens1}
    \cup {ast_ListComp(X(0), GeneratorSeq(n, m), At(1, 0)) : n \in Lens1, m \in Lens}

Arguments(n, m, opt) ==
    ast_arguments(ArgSeq(n, opt), ArgSeq(m, ~opt), OptArg(opt), ArgSeq(n, FALSE), HoleSeq(n),
                  OptArg(~opt), ExprSeq(m))

Stmts ==
    {ast_Expr(e, At(1, 0)) : e \in Exprs}
    \cup {ast_Pass(At(1, 0))}
    \cup {ast_Return(OptExpr(b), At(1, 0)) : b \in BOOLEAN}
    \cup {ast_Assign([i \in 1..n |-> Target(i)], v, At(1, 0)) :
             n \in Lens1, v \in {Num(9), EmptyList}}
    \cup {ast_Import(AliasSeq(n), At(1, 0)) : n \in Lens1}
    \cup {ast_ImportFrom(mod, AliasSeq(n), 1, At(1, 0)) :
             mod \in {PyNone, PyStr("pkg")}, n \in Lens1}
    \cup {ast_ClassDef("C", ExprSeq(n), KeywordSeq(m), StmtSeq(k), ExprSeq(m), At(1, 0)) :
             n \in Lens, m \in Lens, k \in Lens1}
    \cup {ast_FunctionDef("f", Arguments(n, m, opt),
                          <<ast_Return(OptExpr(opt), At(2, 0))>>, ExprSeq(n), OptExpr(~opt),
                          At(1, 0)) : n \in Lens, m \in Lens, opt \in BOOLEAN}
    \cup {ast_With(WithItemSeq(n), StmtSeq(k), At(1, 0)) : n \in Lens1, k \in Lens1}
    \cup {ast_For(Target(1), X(2), StmtSeq(n), StmtSeq(m), At(1, 0)) : n \in Lens1, m \in Lens}
    \cup {ast_If(X(1), StmtSeq(n), StmtSeq(m), At(1, 0)) : n \in Lens1, m \in Lens}

Trees ==
    {ast_Module(<<s>>) : s \in Stmts}
    \cup {ast_Module(StmtSeq(n)) : n \in Lens}
    \cup {ast_Module(<<ast_Pass(At(1, 0)), ast_Pass(At(2, 0))>>),
          ast_Module(<<ast_Expr(EmptyList, At(1, 0)),
                       ast_Expr(ast_BinOp(X(1), "Sub", Num(2), At(2, 0)), At(2, 0))>>),
          ast_Module(<<ast_Expr(ast_Set(<<Num(1)>>, At(1, 0)), At(1, 0)),
                       ast_Expr(ast_Constant(PyBytes("b"), At(2, 0)), At(2, 0))>>)}

\* The file named by sys.argv[1]: one open() cannot read, one ast.parse
\* rejects, or one that parses to a tree.
File(readable, tree) == [readable |-> readable, ast |-> tree]
SyntaxErr == [t |-> "SyntaxError"]
Files ==
    {File(FALSE, SyntaxErr), File(TRUE, SyntaxErr)} \cup {File(TRUE, tree) : tree \in Trees}


\* ---------------------------------------------------------------- state
VARIABLES
    argv,      \* the file named on the command line
    run,       \* which run of the script over that file this is
    first,     \* what the first run wrote and how it ended
    aslr,      \* the address-space layout of this run's process
    pc,        \* "open", "visit", "report" or "exit"
    stack,     \* the call stack: __main__ at the bottom, then visit_ / generic_visit
    missing,   \* the module global `missing`
    iterator,  \* the elements the for loop of line 309 has yet to yield
    stdout,    \* what was written to sys.stdout, in order
    stderr,    \* the traceback of an uncaught exception
    status,    \* "running", "ok" (exit status 0) or "error" (non-zero)
    ret,       \* the call that returned last (history)
    returns    \* the node and the value of every self.visit that returned (history)

vars == <<argv, run, first, aslr, pc, stack, missing, iterator, stdout, stderr, status,
          ret, returns>>

PySet(elems) == [t |-> "set", elems |-> elems]
PrintLine(text) == [op |-> "print", text |-> text]
Write(chunk) == [op |-> "write", text |-> chunk]
Traceback(exc) == [exc |-> exc]
NoReturn == [fn |-> "none"]
NoRun == [status |-> "none"]

Frame(fn, node, just_get_info, todo) ==
    [fn |-> fn, node |-> node, just_get_info |-> just_get_info,
     todo |-> todo,      \* the nodes still to be passed to self.visit
     done |-> <<>>,      \* the values the visits returned
     info |-> PyNone]    \* the value of self.generic_visit(node, True)

Top == stack[Len(stack)]
Callee == Head(Top.todo)
Method_(node) == DictWalker[node.cls]

\* A fresh interpreter: `missing = set()` (line 11), nothing written.
ProcessStart ==
    /\ pc = "open"
    /\ stack = <<>>
    /\ missing = PySet({})
    /\ iterator = {}
    /\ stdout = <<>>
    /\ stderr = <<>>
    /\ status = "running"
    /\ ret = NoReturn
    /\ returns = {}

Init ==
    /\ argv \in Files
    /\ run = 1
    /\ first = NoRun
    /\ aslr \in 1..NumAslr
    /\ ProcessStart

\* An exception nothing catches: the stack unwinds, the interpreter prints
\* the traceback on stderr and exits with a non-zero status.
Uncaught(exc) ==
    /\ pc' = "exit"
    /\ status' = "error"
    /\ stderr' = Append(stderr, Traceback(exc))
    /\ stack' = <<>>
    /\ UNCHANGED <<argv, run, first, aslr, missing, iterator, ret, returns>>

\* lines 303-304
open_raises ==
    /\ pc = "open"
    /\ ~argv.readable
    /\ Uncaught("OSError")
    /\ UNCHANGED stdout

\* line 306, ast.parse
parse_raises ==
    /\ pc = "open"
    /\ argv.readable
    /\ argv.ast = SyntaxErr
    /\ Uncaught("SyntaxError")
    /\ UNCHANGED stdout

\* line 306, DictWalker().visit(ast.parse(source)) is about to be called
parse ==
    /\ pc = "open"
    /\ argv.readable
    /\ argv.ast # SyntaxErr
    /\ pc' = "visit"
    /\ stack' = <<Frame("__main__", PyNone, FALSE, <<argv.ast>>)>>
    /\ UNCHANGED <<argv, run, first, aslr, missing, iterator, stdout, stderr, status,
                   ret, returns>>

Calling == pc = "visit" /\ Len(stack) > 0 /\ Len(Top.todo) > 0

\* self.visit(node) finds visit_<class>: the method starts on its display.
visit_method ==
    /\ Calling
    /\ HasVisitor(Callee)
    /\ stack' = Append(stack, Frame("visit_", Callee, FALSE,
                                    MethodVisits(Callee, Method_(Callee))))
    /\ UNCHANGED <<argv, run, first, aslr, pc, missing, iterator, stdout, stderr, status,
                   ret, returns>>

\* generic_visit recording the class name whatever just_get_info is
generic_visit_enter_tracking(node, just_get_info) ==
    /\ missing' = PySet(missing.elems \cup {node.cls})
    /\ stdout' = IF Fallback(just_get_info)
                 THEN Append(stdout, PrintLine(FString("Unimplemented Node: ", node, aslr)))
                 ELSE stdout
    /\ stack' = Append(stack, Frame("generic_visit", node, just_get_info,
                                    IF Fallback(just_get_info) THEN ChildNodes(node)
                                    ELSE <<>>))

\* generic_visit, lines 16-20: in a fallback call the class name goes into
\* `missing`, the diagnostic is printed and the children are to be visited.
generic_visit_enter(node, just_get_info) ==
    /\ missing' = IF Fallback(just_get_info)
                  THEN PySet(missing.elems \cup {node.cls}) ELSE missing
    /\ stdout' = IF Fallback(just_get_info)
                 THEN Append(stdout, PrintLine(FString("Unimplemented Node: ", node, aslr)))
                 ELSE stdout
    /\ stack' = Append(stack, Frame("generic_visit", node, just_get_info,
                                    IF Fallback(just_get_info) THEN ChildNodes(node)
                                    ELSE <<>>))

\* self.visit(node) finds no visit_<class>: self.generic_visit(node).
visit_fallback ==
    /\ Calling
    /\ ~HasVisitor(Callee)
    /\ generic_visit_enter(Callee, FALSE)
    /\ UNCHANGED <<argv, run, first, aslr, pc, iterator, stderr, status, ret, returns>>

\* A merging method has evaluated its display and not yet the right operand of `|`.
AwaitsInfo(f) ==
    /\ f.fn = "visit_"
    /\ Len(f.todo) = 0
    /\ Method_(f.node).merge
    /\ f.info = PyNone

\* `| self.generic_visit(node, True)`
visit_get_info ==
    /\ pc = "visit"
    /\ Len(stack) > 0
    /\ AwaitsInfo(Top)
    /\ generic_visit_enter(Top.node, TRUE)
    /\ UNCHANGED <<argv, run, first, aslr, pc, iterator, stderr, status, ret, returns>>

\* The caller's frame once the call it was waiting for has returned value.
Resume(caller, value) ==
    IF caller.fn = "visit_" /\ Len(caller.todo) = 0
    THEN [caller EXCEPT !.info = value]
    ELSE IF caller.fn = "generic_visit"
    THEN [caller EXCEPT !.todo = Tail(@)]
    ELSE [caller EXCEPT !.todo = Tail(@), !.done = Append(@, value)]

Return(value) ==
    /\ stack' = SubSeq(stack, 1, Len(stack) - 2)
                \o <<Resume(stack[Len(stack) - 1], value)>>
    /\ ret' = [fn |-> Top.fn, just_get_info |-> Top.just_get_info, node |-> Top.node,
               value |-> value]
    /\ returns' = IF Top.fn = "generic_visit" /\ Top.just_get_info THEN returns
                  ELSE returns \cup {[node |-> Top.node, value |-> value]}
    /\ UNCHANGED <<argv, run, first, aslr, pc, missing, iterator, stdout, stderr, status>>

Returning(fn) == pc = "visit" /\ Len(stack) > 1 /\ Top.fn = fn /\ Len(Top.todo) = 0

\* generic_visit, lines 23-34
generic_return ==
    /\ Returning("generic_visit")
    /\ ~RaisesAttributeError(Top.node)
    /\ Return(generic_visit_return(Top.node, Top.just_get_info, aslr))

\* generic_visit, line 29 (30, 31, 32) on a node without the attribute
generic_raise ==
    /\ Returning("generic_visit")
    /\ RaisesAttributeError(Top.node)
    /\ Uncaught("AttributeError")
    /\ UNCHANGED stdout

\* the return statement of a visit_ method
visit_return ==
    /\ Returning("visit_")
    /\ ~AwaitsInfo(Top)
    /\ Return(method_return(Top.node, Method_(Top.node), Top.done, Top.info))

\* dict_code of line 306
dict_code == stack[1].done[1]
Dumping == pc = "visit" /\ Len(stack) = 1 /\ Len(Top.todo) = 0
Writes(chunks) == [i \in 1..Len(chunks) |-> Write(chunks[i])]

\* line 307, json.dump(dict_code, sys.stdout)
json_dump ==
    /\ Dumping
    /\ Serializable(dict_code)
    /\ stdout' = stdout \o Writes(iterencode(dict_code))
    /\ pc' = "report"
    /\ iterator' = missing.elems
    /\ UNCHANGED <<argv, run, first, aslr, stack, missing, stderr, status, ret, returns>>

\* line 307 on a dict_code holding a value json cannot encode
json_dump_raises ==
    /\ Dumping
    /\ ~Serializable(dict_code)
    /\ stdout' = stdout \o Writes(Written(iterencode(dict_code)))
    /\ Uncaught("TypeError")

\* lines 309-310, `for missing in missing: print(missing)`: the loop variable
\* is the global itself; a set yields its elements in no fixed order.
report ==
    /\ pc = "report"
    /\ \E k \in iterator :
          /\ missing' = PyStr(k)
          /\ stdout' = Append(stdout, PrintLine(PyStr(k)))
          /\ iterator' = iterator \ {k}
    /\ UNCHANGED <<argv, run, first, aslr, pc, stack, stderr, status, ret, returns>>

\* the end of the script
exit ==
    /\ pc = "report"
    /\ iterator = {}
    /\ pc' = "exit"
    /\ status' = "ok"
    /\ stack' = <<>>
    /\ UNCHANGED <<argv, run, first, aslr, missing, iterator, stdout, stderr, ret, returns>>

Outcome == [status |-> status, stdout |-> stdout, stderr |-> stderr]

\* The script is run once more on the same file, in a new process.
run_again ==
    /\ pc = "exit"
    /\ run < NumRuns
    /\ run' = run + 1
    /\ first' = IF run = 1 THEN Outcome ELSE first
    /\ aslr' \in 1..NumAslr
    /\ pc' = "open"
    /\ stack' = <<>>
    /\ missing' = PySet({})
    /\ iterator' = {}
    /\ stdout' = <<>>
    /\ stderr' = <<>>
    /\ status' = "running"
    /\ ret' = NoReturn
    /\ returns' = {}
    /\ UNCHANGED argv

Next ==
    \/ open_raises
    \/ parse_raises
    \/ parse
    \/ visit_method
    \/ visit_fallback
    \/ visit_get_info
    \/ generic_return
    \/ generic_raise
    \/ visit_return
    \/ json_dump
    \/ json_dump_raises
    \/ report
    \/ exit
    \/ run_again

Spec == Init /\ [][Next]_vars


\* =============================================================== claims
IsProgram == argv.readable /\ argv.ast # SyntaxErr
\* the last call that returned was a self.visit(node), through a visit_
\* method or through the fallback (not an info-only generic_visit)
VisitReturned == ret.fn # "none" /\ ~(ret.fn = "generic_visit" /\ ret.just_get_info)
InfoReturned == ret.fn = "generic_visit" /\ ret.just_get_info
MetadataKeys == {"lineno", "col_offset", "end_lineno", "end_col_offset", "type_comment"}
IsDiagnostic(w) ==
    w.op = "print" /\ "obj" \in DOMAIN w.text /\ w.text.s = "Unimplemented Node: "
IsPlaceholder(v) == v.t = "str" /\ "obj" \in DOMAIN v /\ v.s = "Unimplemented: "
IsJson(w) == w.op = "write"
IsReport(w) == w.op = "print" /\ ~IsDiagnostic(w)
OnStdout(Is(_)) == SelectSeq(stdout, Is)

\* the class names of all the nodes of a tree
RECURSIVE Kinds(_)
Kinds(v) ==
    CASE v.t = "AST" -> {v.cls} \cup UNION {Kinds(v.fields[i].v) : i \in 1..Len(v.fields)}
      [] v.t = "list" -> UNION {Kinds(v.items[i]) : i \in 1..Len(v.items)}
      [] OTHER -> {}
Unconverted(tree) == {k \in Kinds(tree) : k \notin DOMAIN DictWalker}

\* the step calls generic_visit with this just_get_info
GenericVisitCalled(just_get_info) ==
    /\ Len(stack') = Len(stack) + 1
    /\ stack'[Len(stack')].fn = "generic_visit"
    /\ stack'[Len(stack')].just_get_info = just_get_info

\* C1: on a file that parses, no self.visit raises: a node of a class
\* without a visit_ method goes through the fallback, which returns a dict.
C1_VisitNeverRaises ==
    IsProgram => \A i \in 1..Len(stderr) : stderr[i] # Traceback("AttributeError")

\* C2 as stated: every dict a self.visit returns has the keys type, lineno,
\* col_offset, end_lineno, end_col_offset and type_comment.
C2_EveryRecordHasMetadata ==
    VisitReturned => ({"type"} \cup MetadataKeys) \subseteq Keys(ret.value)

\* The classes whose visit_ method returns its display alone.
Unmerged ==
    {"Module", "Load", "Store", "BitOr", "Not", "IsNot", "Eq", "Add", "keyword",
     "arguments", "comprehension", "withitem"}

\* C2 amended: every dict a self.visit returns has the key type; it has all
\* of lineno, col_offset, end_lineno, end_col_offset and type_comment when it
\* comes from the fallback or from a visit_ method other than those of
\* Module, Load, Store, BitOr, Not, IsNot, Eq, Add, keyword, arguments,
\* comprehension and withitem, and none of them when it comes from those.
C2_MetadataWhereMerged ==
    VisitReturned =>
        /\ "type" \in Keys(ret.value)
        /\ IF ret.fn = "visit_" /\ ret.node.cls \in Unmerged
           THEN Keys(ret.value) \cap MetadataKeys = {}
           ELSE MetadataKeys \subseteq Keys(ret.value)

C2_Witness ==
    /\ ret.fn = "visit_"
    /\ ret.node.cls = "keyword"
    /\ hasattr(ret.node, "lineno")
    /\ \E r \in returns : IsPlaceholder(Get(r.value, "type")) /\ HasKey(r.value, "lineno")

\* C3: after a complete run the lines of the report are exactly the class
\* names of the tree's nodes that have no visit_ method, each once.
C3_ReportIsUnconvertedKinds ==
    (pc = "exit" /\ status = "ok") =>
        LET lines == OnStdout(IsReport)
        IN  /\ {lines[i].text : i \in 1..Len(lines)}
                 = {PyStr(k) : k \in Unconverted(argv.ast)}
            /\ Len(lines) = Cardinality(Unconverted(argv.ast))

\* C4: a second run over the same file writes the same JSON text as the first.
C4_SameJsonTwice ==
    (run > 1 /\ pc = "exit") => OnStdout(IsJson) = SelectSeq(first.stdout, IsJson)

\* C5: a fallback call emits exactly one diagnostic line, not to the channel
\* the JSON text goes to (sys.stdout) but to a secondary one, so sys.stdout
\* never holds a diagnostic line.
C5_DiagnosticsOffStdout ==
    /\ [](\A i \in 1..Len(stdout) : ~IsDiagnostic(stdout[i]))
    /\ [][GenericVisitCalled(FALSE) =>
            /\ stdout' = stdout
            /\ Len(stderr') = Len(stderr) + 1
            /\ IsDiagnostic(stderr'[Len(stderr')])]_vars

\* C6: a run ends either with the whole JSON text of the root dict written,
\* or in an error with nothing written (no diagnostic line, no JSON text).
C6_AllOrNothing ==
    pc = "exit" =>
        \/ status = "ok" /\ OnStdout(IsJson) = Writes(iterencode(ret.value))
        \/ status = "error" /\ stdout = <<>>

\* C7: the dict a visit_ method returns has under "type" the class name of
\* its node, never an "Unimplemented: ..." placeholder, merged or not.
C7_TypeIsKindTag ==
    ret.fn = "visit_" =>
        /\ Get(ret.value, "type") = PyStr(ret.node.cls)
        /\ ~IsPlaceholder(Get(ret.value, "type"))

C7_Witness ==
    /\ ret.fn = "visit_"
    /\ ret.node.cls = "FunctionDef"
    /\ MetadataKeys \subseteq Keys(ret.value)

\* C8: in the dict a visit_ method returns, every list-valued field of the
\* node (all but Module.type_ignores have an item) is a list of the same
\* length whose i-th element is what self.visit returned for the i-th
\* element of the field (None for an absent element), the empty list included.
C8_SequencesConvertedInOrder ==
    ret.fn = "visit_" =>
        \A f \in 1..Len(ret.node.fields) :
            LET key == ret.node.fields[f].k
                xs == ret.node.fields[f].v
            IN  (xs.t = "list" /\ key # "type_ignores") =>
                    /\ HasKey(ret.value, key)
                    /\ Get(ret.value, key).t = "list"
                    /\ Len(Get(ret.value, key).items) = Len(xs.items)
                    /\ \A i \in 1..Len(xs.items) :
                          IF xs.items[i] = PyNone
                          THEN Get(ret.value, key).items[i] = PyNone
                          ELSE [node |-> xs.items[i],
                                value |-> Get(ret.value, key).items[i]] \in returns

C8_Witness ==
    /\ ret.fn = "visit_"
    /\ ret.node.cls = "ClassDef"
    /\ Len(getattr(ret.node, "bases").items) = 0
    /\ Len(getattr(ret.node, "keywords").items) > 1
    /\ Len(Get(ret.value, "keywords").items) > 1

\* The optional fields the visit_ methods handle: class, key of the dict,
\* attribute of the node.
Optional ==
    {<<"FunctionDef", "return", "returns">>, <<"arg", "annotation", "annotation">>,
     <<"arguments", "vararg", "vararg">>, <<"arguments", "kwarg", "kwarg">>,
     <<"Return", "value", "value">>, <<"withitem", "optional_vars", "optional_vars">>,
     <<"FormattedValue", "format_spec", "format_spec">>, <<"keyword", "arg", "arg">>,
     <<"alias", "asname", "asname">>}

\* The keys of the dicts of the classes that have optional fields.
KeySet ==
    [FunctionDef |-> {"type", "name", "args", "body", "decorator_list", "return"}
                     \cup MetadataKeys,
     arg |-> {"type", "arg", "annotation"} \cup MetadataKeys,
     arguments |-> {"type", "posonlyargs", "args", "vararg", "kwonlyargs", "kw_defaults",
                    "kwarg", "defaults"},
     Return |-> {"type", "value"} \cup MetadataKeys,
     withitem |-> {"type", "context_expr", "optional_vars"},
     FormattedValue |-> {"type", "value", "conversion", "format_spec"} \cup MetadataKeys,
     keyword |-> {"type", "arg", "value"},
     alias |-> {"type", "name", "asname"} \cup MetadataKeys]

\* C9: when an optional field of the node is None, the dict of its visit_
\* method has the field's key, with None (an absent keyword-only default is
\* a None in the kw_defaults list); and the dicts of two nodes of one class
\* have the same keys, whichever optional fields are present.
C9_AbsentFieldsAreNull ==
    ret.fn = "visit_" =>
        /\ ret.node.cls \in DOMAIN KeySet => Keys(ret.value) = KeySet[ret.node.cls]
        /\ \A o \in Optional :
              (ret.node.cls = o[1] /\ getattr(ret.node, o[3]) = PyNone) =>
                  HasKey(ret.value, o[2]) /\ Get(ret.value, o[2]) = PyNone
        /\ ret.node.cls = "arguments" =>
              /\ HasKey(ret.value, "kw_defaults")
              /\ \A i \in 1..Len(getattr(ret.node, "kw_defaults").items) :
                    getattr(ret.node, "kw_defaults").items[i] = PyNone
                        => Get(ret.value, "kw_defaults").items[i] = PyNone
        /\ \A r \in returns :
              (r.node.cls = ret.node.cls /\ ~IsPlaceholder(Get(r.value, "type")))
                  => Keys(r.value) = Keys(ret.value)

C9_Witness ==
    /\ ret.fn = "visit_"
    /\ ret.node.cls = "arg"
    /\ getattr(ret.node, "annotation") = PyNone
    /\ Get(ret.value, "annotation") = PyNone
    /\ \E r \in returns : r.node.cls = "arg" /\ getattr(r.node, "annotation") # PyNone

\* C10: generic_visit(node, True) leaves `missing` and sys.stdout as they
\* are, visits no child and returns a dict without "type"; while the tree
\* is visited `missing` stays a set, loses nothing, and changes only in a
\* fallback call, by the class name of that call's node.
C10_InfoOnlyFrame ==
    /\ [](InfoReturned => ~HasKey(ret.value, "type"))
    /\ [][/\ GenericVisitCalled(TRUE) =>
               /\ missing' = missing
               /\ stdout' = stdout
               /\ Len(stack'[Len(stack')].todo) = 0
          /\ pc = "visit" =>
               /\ missing'.t = "set"
               /\ missing.elems \subseteq missing'.elems
               /\ missing' # missing =>
                     /\ GenericVisitCalled(FALSE)
                     /\ missing'.elems = missing.elems \cup {stack'[Len(stack')].node.cls}]_vars

C10_Witness ==
    /\ InfoReturned
    /\ pc = "visit"
    /\ missing.elems # {}

====
